---------------------------- MODULE Spec2Model ----------------------------
(***************************************************************************)
(* SeaTable nodes of n8n: the action node (SeaTable.execute), the polling  *)
(* trigger (SeaTableTrigger.poll) and the helpers of GenericFunctions.ts.  *)
(*                                                                         *)
(* JSON values are tagged records [type, val].  A string value is held by  *)
(* its lexical rank (a natural number, rank 0 being the empty string), so  *)
(* that JavaScript's string comparison is the comparison of ranks.         *)
(* Objects (rows) are sequences of [k, v] entries with unique keys: a row  *)
(* keeps the insertion order of its keys as a JavaScript object does.      *)
(* Column names, table names and parameter names are TLA+ strings; the     *)
(* free-text column list is a sequence of characters.                      *)
(***************************************************************************)
EXTENDS Integers, Sequences, FiniteSets, TLC

VARIABLES
    entry,          \* "idle", "execute" or "poll": the entry point running
    params,         \* what getNodeParameter / getInputData / getMode return
    credentials,    \* what getCredentials('seatableApi') returns
    ctx,            \* ICtx: [api, metadata]
    pc,             \* the call the entry point is in
    await,          \* the HTTP request in flight ("none" when there is none)
    requests,       \* every HTTP request issued by this invocation, in order
    responses,      \* every body the rows endpoint answered with, in order
    i,              \* append: index of the item being processed
    query,          \* apiRequestAllItems: query.start and query.limit
    pageData,       \* apiRequestAllItems: returnData
    dtableColumns,  \* result of apiDtableColumns
    columnNames,    \* list / poll: the column list handed to rowsFormatColumns
    newRowInsertData, \* append: the mapped insert response of the current item
    dates,          \* poll: [startDate, endDate]
    returnData,     \* execute: the rows collected so far
    returned,       \* what the entry point hands back to the host
    outcome,        \* "running", "ok", or the error thrown
    webhookData,    \* getWorkflowStaticData('node'): [lastTimeChecked]
    clock,          \* the host's wall clock, in minutes
    unit            \* the helper function under test, its inputs and result

vars == <<entry, params, credentials, ctx, pc, await, requests, responses, i,
          query, pageData, dtableColumns, columnNames, newRowInsertData, dates,
          returnData, returned, outcome, webhookData, clock, unit>>

---------------------------------------------------------------------------
(* JSON values *)

Undefined == [type |-> "undefined", val |-> 0]
Null == [type |-> "null", val |-> 0]
Obj == [type |-> "object", val |-> 0]
Bool(b) == [type |-> "boolean", val |-> b]
Num(n) == [type |-> "number", val |-> n]
Str(rank) == [type |-> "string", val |-> rank]
Arr(elems) == [type |-> "array", val |-> elems]

\* JavaScript's ToBoolean
Truthy(v) ==
    CASE v.type \in {"undefined", "null"} -> FALSE
      [] v.type = "boolean" -> v.val
      [] v.type \in {"number", "string"} -> v.val # 0
      [] OTHER -> TRUE

(* Objects with ordered keys *)

Keys(row) == [n \in 1..Len(row) |-> row[n].k]
KeySet(row) == {row[n].k : n \in 1..Len(row)}
Has(row, key) == key \in KeySet(row)
Get(row, key) ==
    IF Has(row, key)
    THEN row[CHOOSE n \in 1..Len(row) : row[n].k = key].v
    ELSE Undefined
\* the keys that are array indices (the one-digit ones stand for all of them)
\* and their numbers: an object lists these keys first, in ascending order,
\* and the other keys after them in the order of their creation
IndexKeys == <<"0", "1", "2", "3", "4", "5", "6", "7", "8", "9">>
IsIndex(key) == \E d \in 1..Len(IndexKeys) : IndexKeys[d] = key
IndexValue(key) == (CHOOSE d \in 1..Len(IndexKeys) : IndexKeys[d] = key) - 1
\* row[key] = value: an existing key keeps its place, a new array index goes
\* after the smaller array indices, any other new key goes last
Put(row, key, value) ==
    IF Has(row, key)
    THEN [n \in 1..Len(row) |-> IF row[n].k = key THEN [k |-> key, v |-> value] ELSE row[n]]
    ELSE IF IsIndex(key)
         THEN LET before == Cardinality({n \in 1..Len(row) :
                                IsIndex(row[n].k) /\ IndexValue(row[n].k) < IndexValue(key)})
              IN  SubSeq(row, 1, before) \o <<[k |-> key, v |-> value]>>
                  \o SubSeq(row, before + 1, Len(row))
         ELSE Append(row, [k |-> key, v |-> value])
\* delete row[key]
Delete(row, key) == SelectSeq(row, LAMBDA e : e.k # key)
\* {...a, ...b}
RECURSIVE Spread(_, _)
Spread(a, b) == IF b = <<>> THEN a ELSE Spread(Put(a, Head(b).k, Head(b).v), Tail(b))

---------------------------------------------------------------------------
(* schema *)

rowFetchSegmentLimit == 1000
internalNames == <<"_id", "_creator", "_ctime", "_last_modifier", "_mtime", "_seq">>
columnTypes ==
    {"text", "long-text", "number", "collaborator", "date", "duration",
     "single-select", "multiple-select", "email", "url", "rate", "checkbox",
     "formula", "creator", "ctime", "last-modifier", "mtime", "auto-number"}

Range(s) == {s[n] : n \in 1..Len(s)}
IndexOf(s, e) == IF e \in Range(s) THEN CHOOSE n \in 1..Len(s) : s[n] = e /\ \A m \in 1..(n - 1) : s[m] # e ELSE 0

---------------------------------------------------------------------------
(* Column-name parsing *)

Whitespace == {" "}

\* String.prototype.normalize(): canonical composition (NFC).  The letter
\* "A" followed by the combining ring "+o" composes to the one character
\* "(A+o)"; every other character of the model is already in normal form.
RECURSIVE normalize(_)
normalize(subject) ==
    IF Len(subject) < 2 THEN subject
    ELSE IF subject[1] = "A" /\ subject[2] = "+o"
         THEN <<"(A+o)">> \o normalize(SubSeq(subject, 3, Len(subject)))
         ELSE <<subject[1]>> \o normalize(Tail(subject))

\* \s* : the first position at or after q that holds no white space
RECURSIVE SkipSpace(_, _)
SkipSpace(s, q) ==
    IF q <= Len(s) /\ s[q] \in Whitespace THEN SkipSpace(s, q + 1) ELSE q

\* ((?:[^\\,]*?(?:\\[\s\S])*)*?)\s*(?:,|$) from position q, the token having
\* begun earlier: the token is a run of plain characters and escaped pairs,
\* taken lazily, so it ends after the last unit that is not plain white space
\* (tokEnd); the match stops at the first unescaped comma or at the end of
\* the input, and fails on a backslash that nothing follows.
RECURSIVE ScanToken(_, _, _)
ScanToken(s, q, tokEnd) ==
    IF q > Len(s) \/ s[q] = ","
    THEN [found |-> TRUE, stop |-> q, tokEnd |-> tokEnd]
    ELSE IF s[q] = "\\"
         THEN IF q + 1 > Len(s)
              THEN [found |-> FALSE, stop |-> q, tokEnd |-> tokEnd]
              ELSE ScanToken(s, q + 2, q + 2)
         ELSE IF s[q] \in Whitespace
              THEN ScanToken(s, q + 1, tokEnd)
              ELSE ScanToken(s, q + 1, q + 1)

\* one sticky match of the splitter at position q:
\* [found, capture (group 1), e (the position after the match)]
SplitterExec(s, q) ==
    LET q1 == SkipSpace(s, q)
        m == ScanToken(s, q1, q1)
    IN  [found |-> m.found,
         capture |-> SubSeq(s, q1, m.tokEnd - 1),
         e |-> IF m.stop <= Len(s) THEN m.stop + 1 ELSE Len(s) + 1]

\* String.prototype.split(regexp) on a non-empty string (ECMAScript
\* RegExp.prototype[@@split]): p is where the pending piece begins, q where
\* the next match is tried; each match adds the piece before it and its
\* capture group.
RECURSIVE SplitLoop(_, _, _, _)
SplitLoop(s, p, q, acc) ==
    IF q > Len(s) THEN Append(acc, SubSeq(s, p, Len(s)))
    ELSE LET z == SplitterExec(s, q)
         IN  IF ~z.found \/ z.e = p
             THEN SplitLoop(s, p, q + 1, acc)
             ELSE SplitLoop(s, z.e, z.e, acc \o <<SubSeq(s, p, q - 1), z.capture>>)

split(s) == SplitLoop(s, 1, 1, <<>>)

\* s.replace(/\\([\s\S])/gm, (_, $1) => $1)
RECURSIVE unescape(_)
unescape(s) ==
    IF s = <<>> THEN <<>>
    ELSE IF s[1] = "\\" /\ Len(s) >= 2
         THEN <<s[2]>> \o unescape(SubSeq(s, 3, Len(s)))
         ELSE <<s[1]>> \o unescape(Tail(s))

\* the string a sequence of characters spells
RECURSIVE Spell(_)
Spell(chars) == IF chars = <<>> THEN "" ELSE Head(chars) \o Spell(Tail(chars))

Map(s, Op(_)) == [n \in 1..Len(s) |-> Op(s[n])]

\* .filter(($, index, $$) => $$.indexOf($) === index)
Unique(s) ==
    LET keep == {n \in 1..Len(s) : \A m \in 1..(n - 1) : s[m] # s[n]}
        RECURSIVE Pick(_)
        Pick(n) == IF n > Len(s) THEN <<>>
                   ELSE (IF n \in keep THEN <<s[n]>> ELSE <<>>) \o Pick(n + 1)
    IN  Pick(1)

columnNamesToArray(columnNamesParam) ==
    IF columnNamesParam = <<>> THEN <<>>
    ELSE LET pieces == SelectSeq(split(normalize(columnNamesParam)), LAMBDA t : Len(t) # 0)
             names == Map(pieces, LAMBDA t : Spell(unescape(t)))
             kept == SelectSeq(names, LAMBDA t : t \notin ({""} \cup Range(internalNames)))
         IN  Unique(kept)

---------------------------------------------------------------------------
(* Rows *)

\* rowsSequence, on the rows array of an IRows
rowsSequence(rows) ==
    IF Len(rows) # 0 /\ Get(rows[1], "_seq") # Undefined
    THEN rows
    ELSE [n \in 1..Len(rows) |-> Put(rows[n], "_seq", Num(n))]

RECURSIVE DeleteAll(_, _)
DeleteAll(row, names) ==
    IF names = <<>> THEN row ELSE DeleteAll(Delete(row, Head(names)), Tail(names))

rowDeleteInternalColumns(row) == DeleteAll(row, internalNames)

rowFormatColumn(input) ==
    IF input.type \in {"null", "undefined"} THEN Null
    ELSE IF input.type \in {"boolean", "number", "string"} THEN input
    ELSE IF input.type = "array" /\ \A n \in 1..Len(input.val) : input.val[n].type = "string"
         THEN input
         ELSE Null

RECURSIVE rowFormatColumnsFrom(_, _, _)
rowFormatColumnsFrom(row, names, outRow) ==
    IF names = <<>> THEN outRow
    ELSE rowFormatColumnsFrom(row, Tail(names),
                              Put(outRow, Head(names), rowFormatColumn(Get(row, Head(names)))))

rowFormatColumns(row, names) == rowFormatColumnsFrom(row, names, <<>>)

rowsFormatColumns(rows, names) == [n \in 1..Len(rows) |-> rowFormatColumns(rows[n], names)]

\* first loop of rowMapColumnsFromKeysToNames: a truthy internal field moves
\* from row to outRow; st = [row, outRow]
RECURSIVE MoveInternal(_, _)
MoveInternal(st, names) ==
    IF names = <<>> THEN st
    ELSE LET name == Head(names)
         IN  IF Truthy(Get(st.row, name))
             THEN MoveInternal([row |-> Delete(st.row, name),
                                outRow |-> Put(st.outRow, name, Get(st.row, name))],
                               Tail(names))
             ELSE MoveInternal(st, Tail(names))

\* columns.find(c => c.key === key)
FindByKey(columns, key) == SelectSeq(columns, LAMBDA c : c.key = key)

\* second loop: every remaining key that is a column key goes under the
\* column's name
\* mutant of MapKeys: the value stays under the column's key
RECURSIVE MapKeysUntranslated(_, _, _)
MapKeysUntranslated(entries, columns, outRow) ==
    IF entries = <<>> THEN outRow
    ELSE LET hit == FindByKey(columns, Head(entries).k)
         IN  IF hit # <<>>
             THEN MapKeysUntranslated(Tail(entries), columns,
                                      Put(outRow, Head(entries).k, Head(entries).v))
             ELSE MapKeysUntranslated(Tail(entries), columns, outRow)

RECURSIVE MapKeys(_, _, _)
MapKeys(entries, columns, outRow) ==
    IF entries = <<>> THEN outRow
    ELSE LET hit == FindByKey(columns, Head(entries).k)
         IN  IF hit # <<>>
             THEN MapKeys(Tail(entries), columns, Put(outRow, hit[1].name, Head(entries).v))
             ELSE MapKeys(Tail(entries), columns, outRow)

rowMapColumnsFromKeysToNames(row, columns) ==
    LET st == MoveInternal([row |-> row, outRow |-> <<>>], internalNames)
    IN  MapKeys(st.row, columns, st.outRow)

\* mutant of GreaterThan: a row as old as the cursor passes
GreaterOrEqual(f, startDate) ==
    f.type = "string" /\ startDate.type = "string" /\ f.val >= startDate.val

\* f > startDate on two JavaScript values: strings compare lexically, and
\* undefined or null is greater than no string
GreaterThan(f, startDate) ==
    f.type = "string" /\ startDate.type = "string" /\ f.val > startDate.val

rowsTimeFilter(rows, columnName, startDate) ==
    SelectSeq(rowsSequence(rows), LAMBDA row : GreaterThan(Get(row, columnName), startDate))

\* lodash compareAscending: values of one type by <, then null, then undefined
SortClass(v) == CASE v.type = "undefined" -> 2 [] v.type = "null" -> 1 [] OTHER -> 0
compareAscending(value, other) ==
    IF SortClass(value) # SortClass(other)
    THEN IF SortClass(value) > SortClass(other) THEN 1 ELSE -1
    ELSE IF value.type = other.type /\ value.type \in {"string", "number"}
         THEN IF value.val > other.val THEN 1 ELSE IF value.val < other.val THEN -1 ELSE 0
         ELSE 0

\* lodash compareMultiple over the iteratees, all ascending
RECURSIVE compareMultiple(_, _, _)
compareMultiple(object, other, iteratees) ==
    IF iteratees = <<>> THEN 0
    ELSE LET result == compareAscending(Get(object, Head(iteratees)), Get(other, Head(iteratees)))
         IN  IF result # 0 THEN result ELSE compareMultiple(object, other, Tail(iteratees))

\* _.orderBy(rows, iteratees, all 'asc'): a stable sort, rows that compare
\* equal keep their order (lodash breaks ties by the index in the input)
orderBy(rows, iteratees) ==
    SortSeq(rows, LAMBDA object, other : compareMultiple(object, other, iteratees) < 0)

rowsTimeSort(rows, columnName) == orderBy(rowsSequence(rows), <<columnName, "_seq">>)

---------------------------------------------------------------------------
(* Metadata *)

dtableSchemaIsColumn(column) == column.type \in columnTypes
dtableSchemaColumns(columns) == SelectSeq(columns, dtableSchemaIsColumn)

---------------------------------------------------------------------------
(* Bounds of the model *)

MaxItems == 2        \* append: at most this many input items
MaxFullPages == 2    \* the server returns at most this many full pages
ShortPage == 3       \* the number of rows of a short, non-empty page
MaxClock == 4        \* invocations start while the clock is below this

(* The host and the server *)

TwoMinutes == 2

\* moment.format('YYYY-MM-DDTHH:mm:ss.SSSZ'): the rank of the text of minute
\* m; the ranks grow with m, and rank 0 is the empty string
format(m) == Str(m + 1)

NoCredentials == [defined |-> FALSE, appAccessToken |-> Undefined]
SeatableApi == [defined |-> TRUE, appAccessToken |-> Undefined]
AppAccessToken == [type |-> "object", val |-> 1]

Column(key, name, type) == [key |-> key, name |-> name, type |-> type]
Table(name, columns) == [name |-> name, columns |-> columns]
Metadata(tables) == [type |-> "object", val |-> [tables |-> tables]]

TablesPlain ==
    <<Table("T1", <<Column("0000", "T", "text"), Column("k1", "S", "number")>>),
      Table("T2", <<Column("0000", "N", "text")>>)>>
TablesImageFirst ==
    <<Table("T1", <<Column("0000", "P", "image"), Column("k1", "T", "text"),
                    Column("k2", "S", "number")>>)>>
TablesImageOnly == <<Table("T1", <<Column("0000", "P", "image")>>)>>

\* bodies of the metadata response
MetadataBodies ==
    {[metadata |-> Undefined],
     [metadata |-> Metadata(Undefined)],
     [metadata |-> Metadata(Arr(TablesPlain))],
     [metadata |-> Metadata(Arr(TablesImageFirst))],
     [metadata |-> Metadata(Arr(TablesImageOnly))]}

Entry(key, value) == [k |-> key, v |-> value]

\* bodies of the insert (POST rows) and of the fetch (GET rows/id) response
InsertBodies ==
    {<<>>, <<Entry("_id", Str(7))>>, <<Entry("_id", Str(7)), Entry("0000", Str(5))>>}
FetchBodies ==
    {<<Entry("T", Str(5))>>,
     <<Entry("_id", Str(7)), Entry("_ctime", Str(2)), Entry("T", Str(5)), Entry("S", Num(1))>>}

\* a row of the rows endpoint; a timestamp that is undefined is a missing field
ServerRow(id, ctime, mtime) ==
    <<Entry("_id", Num(id))>>
    \o (IF ctime = Undefined THEN <<>> ELSE <<Entry("_ctime", ctime)>>)
    \o (IF mtime = Undefined THEN <<>> ELSE <<Entry("_mtime", mtime)>>)
    \o <<Entry("T", Str(id)), Entry("S", Arr(<<Str(1), Str(2)>>))>>

\* the timestamps of a page's rows repeat one of these patterns
Patterns ==
    {<<Str(MaxClock + 2), Str(MaxClock)>>, <<Str(TwoMinutes + 1)>>,
     <<Undefined, Str(MaxClock + 2)>>}
Cycle(pattern, j) == pattern[((j - 1) % Len(pattern)) + 1]

RowsBody(start, n, pattern) ==
    [hasRows |-> TRUE,
     rows |-> [j \in 1..n |-> ServerRow(start + j, Cycle(pattern, j), Cycle(pattern, j + 1))]]
NoRowsBody == [hasRows |-> FALSE, rows |-> <<>>]

\* the bodies the rows endpoint answers a request with, given the page
\* lengths the server may choose
PageBodies(start, lengths) ==
    {NoRowsBody}
    \cup {RowsBody(start, n, pattern) : n \in lengths \cap 0..ShortPage, pattern \in Patterns}
    \cup {RowsBody(start, n, <<Str(TwoMinutes + 1)>>) : n \in lengths \ 0..ShortPage}

ShortLengths == {0, ShortPage}
AllLengths == {0, ShortPage, rowFetchSegmentLimit - 1, rowFetchSegmentLimit}

---------------------------------------------------------------------------
(* The running invocation, as one record; Commit writes it back *)

Running ==
    [entry |-> entry, params |-> params, ctx |-> ctx, pc |-> pc, await |-> await,
     requests |-> requests, responses |-> responses, i |-> i, query |-> query, pageData |-> pageData,
     dtableColumns |-> dtableColumns, columnNames |-> columnNames,
     newRowInsertData |-> newRowInsertData, dates |-> dates,
     returnData |-> returnData, returned |-> returned, outcome |-> outcome,
     webhookData |-> webhookData]

Commit(s) ==
    /\ entry' = s.entry
    /\ params' = s.params
    /\ ctx' = s.ctx
    /\ pc' = s.pc
    /\ await' = s.await
    /\ requests' = s.requests
    /\ responses' = s.responses
    /\ i' = s.i
    /\ query' = s.query
    /\ pageData' = s.pageData
    /\ dtableColumns' = s.dtableColumns
    /\ columnNames' = s.columnNames
    /\ newRowInsertData' = s.newRowInsertData
    /\ dates' = s.dates
    /\ returnData' = s.returnData
    /\ returned' = s.returned
    /\ outcome' = s.outcome
    /\ webhookData' = s.webhookData

NoParams ==
    [operation |-> "", table |-> "", items |-> 0, returnAll |-> FALSE, limit |-> 0,
     columnNames |-> <<>>, mode |-> ""]
NoDates == [startDate |-> Undefined, endDate |-> Undefined]
NoQuery == [start |-> -1, limit |-> -1]
EmptyCtx == [api |-> NoCredentials, metadata |-> Undefined]

\* the locals of an entry point when it is called with parameters p; the
\* workflow's static data outlives the call
Fresh(name, p, staticData) ==
    [entry |-> name, params |-> p, ctx |-> EmptyCtx, pc |-> "start", await |-> "none",
     requests |-> <<>>, responses |-> <<>>, i |-> 0, query |-> NoQuery, pageData |-> <<>>,
     dtableColumns |-> <<>>, columnNames |-> <<>>, newRowInsertData |-> <<>>,
     dates |-> NoDates, returnData |-> <<>>, returned |-> Undefined,
     outcome |-> "running", webhookData |-> staticData]

Thrown(s) == s.pc = "done"
Throw(s, error) == [s EXCEPT !.pc = "done", !.await = "none", !.outcome = error]
Return(s, data) ==
    [s EXCEPT !.pc = "done", !.await = "none", !.outcome = "ok", !.returned = data]

\* this.helpers.request(...): the request leaves, the caller awaits the answer
Request(s, req) == [s EXCEPT !.requests = Append(@, req), !.await = req.kind]
Answered(s) == [s EXCEPT !.await = "none"]
\* the answer of the rows endpoint has arrived
AnsweredRows(s, responseData) ==
    [s EXCEPT !.await = "none", !.responses = Append(@, responseData)]

TokenRequest == [kind |-> "token", item |-> 0, start |-> -1, limit |-> -1]
MetadataRequest == [kind |-> "metadata", item |-> 0, start |-> -1, limit |-> -1]
\* the request apiRequest sends for the call the entry point is in
RequestAt(s) ==
    CASE s.pc = "insert" -> [kind |-> "insert", item |-> s.i + 1, start |-> -1, limit |-> -1]
      [] s.pc = "fetch" -> [kind |-> "fetch", item |-> s.i + 1, start |-> -1, limit |-> -1]
      [] OTHER -> [kind |-> "rows", item |-> 0, start |-> s.query.start, limit |-> s.query.limit]

---------------------------------------------------------------------------
(* Context staging and requests *)

ctxStageApiCredentials(s) ==
    IF ~s.ctx.api.defined
    THEN IF ~credentials.defined
         THEN Throw(s, "No credentials got returned!")
         ELSE [s EXCEPT !.ctx.api = credentials]
    ELSE s

\* mutant of apiRequestCatch: a failed request ends the call with the rows
\* fetched so far
apiRequestCatchPartial(s) == Return(s, Arr(s.pageData))
\* mutant of apiRequestCatch: a failed request ends append with the rows of
\* the items before
apiRequestCatchItem(s) == Return(s, Arr(s.returnData))

\* catch (error) { throw new NodeApiError(this.getNode(), error); }
tokenCatch(s) == Throw(s, "NodeApiError")
metadataCatch(s) == Throw(s, "NodeApiError")
apiRequestCatch(s) == Throw(s, "NodeApiError")

\* mutant of MetadataMissing: the stage does not look at ctx.metadata
MetadataMissingAlways(c) == TRUE

\* the guards of the two fetching stages
TokenMissing(c) == c.api.appAccessToken = Undefined
MetadataMissing(c) == c.metadata = Undefined

\* apiRequest, up to the request it sends
apiRequest(s) ==
    LET s1 == ctxStageApiCredentials(s)
    IN  IF Thrown(s1) THEN s1
        ELSE IF TokenMissing(s1.ctx) THEN Request(s1, TokenRequest)
        ELSE Request(s1, RequestAt(s1))

\* apiRequestAllItems, up to its first request
apiRequestAllItems(s) ==
    apiRequest([s EXCEPT !.pc = "page", !.pageData = <<>>,
                         !.query = [start |-> 0, limit |-> rowFetchSegmentLimit]])

\* mutant of selectColumnNames: the requested names are not checked against
\* the table
selectColumnNamesUnchecked(columns, names) == <<columns[1].name>> \o names

\* [defaultColumn, ...columnNames].filter(name => dtableColumns.find(...))
selectColumnNames(columns, names) ==
    SelectSeq(<<columns[1].name>> \o names,
              LAMBDA name : \E n \in 1..Len(columns) : columns[n].name = name)

\* execute, list: from the rows response to the return
listFinish(s, responseData) ==
    LET names == selectColumnNames(s.dtableColumns, columnNamesToArray(s.params.columnNames))
        rows == rowsFormatColumns(responseData.rows, names)
    IN  IF s.dtableColumns = <<>> THEN Throw(s, "TypeError")
        ELSE IF ~responseData.hasRows THEN Throw([s EXCEPT !.columnNames = names], "TypeError")
        ELSE Return([s EXCEPT !.columnNames = names, !.returnData = rows], Arr(rows))

\* poll: from the end of apiRequestAllItems to the return
pollFinish(s, rows) ==
    LET s1 == [s EXCEPT !.webhookData.lastTimeChecked = s.dates.endDate]
        triggerColumn == IF s.params.operation = "create" THEN "_ctime" ELSE "_mtime"
        sorted == rowsTimeSort(rowsTimeFilter(rows, triggerColumn, s.dates.startDate), triggerColumn)
        names == selectColumnNames(s.dtableColumns, columnNamesToArray(s.params.columnNames))
    IN  IF Len(rows) = 0 THEN Return(s1, Null)
        ELSE IF s.params.mode = "manual" /\ Get(rows[1], triggerColumn) = Undefined
        THEN Throw(s1, "The Field \"" \o triggerColumn \o "\" does not exist.")
        ELSE IF s.dtableColumns = <<>> THEN Throw(s1, "TypeError")
        ELSE Return([s1 EXCEPT !.columnNames = names],
                    Arr(rowsFormatColumns(sorted, names)))

\* what follows apiDtableColumns in the three callers
afterColumns(s) ==
    CASE s.entry = "poll" -> apiRequestAllItems(s)
      [] s.params.operation = "append" -> apiRequest([s EXCEPT !.pc = "insert"])
      [] OTHER ->
            IF s.params.returnAll THEN apiRequestAllItems(s)
            ELSE apiRequest([s EXCEPT !.pc = "rows",
                                      !.query = [start |-> -1, limit |-> s.params.limit]])

\* mutant of FindTable: the first table, whatever its name
FindTableFirst(tables, tableName) == SubSeq(tables, 1, 1)

\* tables.find(e => e.name === tableName)
FindTable(tables, tableName) == SelectSeq(tables, LAMBDA e : e.name = tableName)

\* apiDtableColumns, after the metadata stage
apiDtableColumns(s) ==
    LET tables == s.ctx.metadata.val.tables
        table == FindTable(tables.val, s.params.table)
    IN  IF tables = Undefined THEN Throw(s, "SeaTable: Metadata error.")
        ELSE IF table = <<>>
        THEN Throw(s, "SeaTable: Not a table: \"" \o s.params.table \o "\".")
        ELSE afterColumns([s EXCEPT !.dtableColumns = dtableSchemaColumns(table[1].columns)])

\* table.columns.filter(dtableSchemaIsColumn).map($1 => $1.name).join(', ')
RECURSIVE join(_, _)
join(names, separator) ==
    IF names = <<>> THEN ""
    ELSE IF Len(names) = 1 THEN names[1]
    ELSE names[1] \o separator \o join(Tail(names), separator)

\* execute, metadata: after apiMetadata
metadataFinish(s) ==
    LET all == s.ctx.metadata.val.tables
        found == FindTable(all.val, s.params.table)
        tables == IF found # <<>> THEN <<found[1]>> ELSE all.val
        result == [n \in 1..Len(tables) |->
                     [name |-> tables[n].name,
                      columns |-> join(Map(dtableSchemaColumns(tables[n].columns),
                                           LAMBDA c : c.name), ", ")]]
    IN  IF all = Undefined THEN Throw(s, "TypeError")
        ELSE Return([s EXCEPT !.returnData = result], Arr(result))

\* ctxStageDtableMetadata is done: back in apiMetadata or apiDtableColumns
afterMetadata(s) ==
    IF s.pc = "apiMetadata" THEN metadataFinish(s) ELSE apiDtableColumns(s)

\* ctxStageDtableMetadata, from the check of ctx.metadata on
stageMetadata(s) ==
    IF MetadataMissing(s.ctx) THEN Request(s, MetadataRequest) ELSE afterMetadata(s)

\* ctxStageDtableMetadata, from its start
ctxStageDtableMetadata(s) ==
    LET s1 == ctxStageApiCredentials(s)
    IN  IF Thrown(s1) THEN s1
        ELSE IF TokenMissing(s1.ctx) THEN Request(s1, TokenRequest)
        ELSE stageMetadata(s1)

\* ctxStageAppAccessToken, after its request: back in the caller
afterToken(s) ==
    IF s.pc \in {"apiDtableColumns", "apiMetadata"} THEN stageMetadata(s)
    ELSE Request(s, RequestAt(s))

---------------------------------------------------------------------------
(* The entry points *)

\* SeaTable.execute, up to its first request
execute(s) ==
    CASE s.params.operation = "append" ->
            IF s.params.items = 0 THEN Return(s, Arr(<<>>))
            ELSE ctxStageDtableMetadata([s EXCEPT !.pc = "apiDtableColumns"])
      [] s.params.operation = "list" ->
            ctxStageDtableMetadata([s EXCEPT !.pc = "apiDtableColumns"])
      [] s.params.operation = "metadata" ->
            ctxStageDtableMetadata([s EXCEPT !.pc = "apiMetadata"])
      [] OTHER ->
            Throw(s, "The operation \"" \o s.params.operation \o "\" is not known!")

\* SeaTableTrigger.poll, up to its first request.  nowMoment and
\* lastTimeCheckedMoment are one moment object, which subtract() changes in
\* place: now and lastTimeChecked are formatted from the same minute.
poll(s, time) ==
    LET moment == IF s.params.mode = "manual" THEN time - TwoMinutes ELSE time
        now == format(moment)
        lastTimeChecked == format(moment)
        startDate == IF Truthy(s.webhookData.lastTimeChecked)
                     THEN s.webhookData.lastTimeChecked ELSE lastTimeChecked
    IN  IF ~credentials.defined THEN Throw(s, "TypeError")
        ELSE ctxStageDtableMetadata(
                [s EXCEPT !.ctx = [api |-> credentials, metadata |-> Undefined],
                          !.dates = [startDate |-> startDate, endDate |-> now],
                          !.pc = "apiDtableColumns"])

\* the parameters the host may hand to the two entry points
ColumnNameInputs ==
    {<<>>, <<"T">>, <<"S", ",", "G">>, <<"G", ",", " ", "S", ",", "T">>}
ExecuteParams ==
    {[NoParams EXCEPT !.operation = "append", !.table = t, !.items = n] :
        t \in {"T1", "Ghost"}, n \in 0..MaxItems}
    \cup {[NoParams EXCEPT !.operation = "list", !.table = t, !.returnAll = all,
                           !.limit = IF all THEN 0 ELSE 100, !.columnNames = c] :
            t \in {"T1", "Ghost"}, all \in BOOLEAN, c \in ColumnNameInputs}
    \cup {[NoParams EXCEPT !.operation = o, !.table = t] :
            o \in {"metadata", "upsert"}, t \in {"T1", "Ghost"}}
ListAllParams == {p \in ExecuteParams : p.operation = "list" /\ p.returnAll}
PollParams ==
    {[NoParams EXCEPT !.operation = o, !.table = t, !.columnNames = c, !.mode = m] :
        o \in {"create", "update"}, t \in {"T1", "Ghost"}, c \in ColumnNameInputs,
        m \in {"manual", "trigger"}}

Idle == outcome # "running" /\ clock < MaxClock

ExecuteStart(parameters) ==
    /\ Idle
    /\ \E p \in parameters : Commit(execute(Fresh("execute", p, webhookData)))
    /\ clock' = clock + 1
    /\ UNCHANGED <<credentials, unit>>

PollStart ==
    /\ Idle
    /\ \E p \in PollParams : Commit(poll(Fresh("poll", p, webhookData), clock + 1))
    /\ clock' = clock + 1
    /\ UNCHANGED <<credentials, unit>>

(* The answers of the server *)

TokenBodies == {Undefined, AppAccessToken}

TokenResponse ==
    /\ await = "token"
    /\ \/ Commit(tokenCatch(Running))
       \/ \E body \in TokenBodies :
            LET s == [Answered(Running) EXCEPT !.ctx.api.appAccessToken = body]
            IN  Commit(IF body = Undefined
                       THEN Throw(s, "SeaTable: Failed to obtain access token of the base.")
                       ELSE afterToken(s))
    /\ UNCHANGED <<credentials, clock, unit>>

MetadataResponse ==
    /\ await = "metadata"
    /\ \/ Commit(metadataCatch(Running))
       \/ \E responseData \in MetadataBodies :
            Commit(IF responseData.metadata = Undefined
                   THEN Throw(Running, "SeaTable: Error while obtaining metadata.")
                   ELSE afterMetadata([Answered(Running) EXCEPT
                                          !.ctx.metadata = responseData.metadata]))
    /\ UNCHANGED <<credentials, clock, unit>>

\* execute, append: from the answer to the POST to the GET
InsertResponse ==
    /\ await = "insert"
    /\ \/ Commit(apiRequestCatch(Running))
       \/ \E responseData \in InsertBodies :
            Commit(IF Get(responseData, "_id") = Undefined
                   THEN Throw(Running, "SeaTable: No identity after appending row.")
                   ELSE apiRequest([Answered(Running) EXCEPT
                            !.newRowInsertData =
                                rowMapColumnsFromKeysToNames(responseData, dtableColumns),
                            !.pc = "fetch"]))
    /\ UNCHANGED <<credentials, clock, unit>>

\* execute, append: from the answer to the GET to the next item or the return
FetchResponse ==
    /\ await = "fetch"
    /\ \/ Commit(apiRequestCatch(Running))
       \/ \E newRow \in FetchBodies :
            LET row == rowFormatColumns(Spread(newRowInsertData, newRow),
                                        Map(dtableColumns, LAMBDA c : c.name))
                s == [Answered(Running) EXCEPT
                         !.returnData = Append(@, rowDeleteInternalColumns(row)),
                         !.i = @ + 1]
            IN  Commit(IF Get(newRow, "_id") = Undefined
                       THEN Throw(Running, "SeaTable: No identity for inserted row.")
                       ELSE IF s.i < params.items
                       THEN ctxStageDtableMetadata([s EXCEPT !.pc = "apiDtableColumns"])
                       ELSE Return(s, Arr(s.returnData)))
    /\ UNCHANGED <<credentials, clock, unit>>

\* execute, list with a limit: the answer to the one rows request
RowsResponse ==
    /\ await = "rows" /\ pc = "rows"
    /\ \/ Commit(apiRequestCatch(Running))
       \/ \E responseData \in PageBodies(0, ShortLengths) :
            Commit(listFinish(AnsweredRows(Running, responseData), responseData))
    /\ UNCHANGED <<credentials, clock, unit>>

\* mutant of morePages: the loop goes on after a page of 999 rows
morePagesAfter999(responseData) ==
    responseData.hasRows /\ Len(responseData.rows) > rowFetchSegmentLimit - 2

\* while (responseData.rows && responseData.rows.length > segment - 1)
morePages(responseData) ==
    responseData.hasRows /\ Len(responseData.rows) > rowFetchSegmentLimit - 1

\* apiRequestAllItems: the answer to a page request, up to the next page
\* request or, after the last page, to the return of the caller
PageResponse(lengths) ==
    /\ await = "rows" /\ pc = "page"
    /\ \/ Commit(apiRequestCatch(Running))
       \/ \E responseData \in PageBodies(query.start, lengths) :
            LET s == [AnsweredRows(Running, responseData) EXCEPT
                         !.pageData = @ \o responseData.rows,
                         !.query.start = @ + rowFetchSegmentLimit]
            IN  /\ Len(responseData.rows) = rowFetchSegmentLimit
                        => query.start < MaxFullPages * rowFetchSegmentLimit
                /\ Commit(IF morePages(responseData) THEN apiRequest(s)
                          ELSE IF entry = "poll" THEN pollFinish(s, s.pageData)
                          ELSE listFinish(s, [hasRows |-> TRUE, rows |-> s.pageData]))
    /\ UNCHANGED <<credentials, clock, unit>>

---------------------------------------------------------------------------
(* Specifications *)

NoUnit == [fn |-> "none"]

\* nothing has been called yet
Main ==
    /\ entry = "idle"
    /\ params = NoParams
    /\ ctx = EmptyCtx
    /\ pc = "idle"
    /\ await = "none"
    /\ requests = <<>>
    /\ responses = <<>>
    /\ i = 0
    /\ query = NoQuery
    /\ pageData = <<>>
    /\ dtableColumns = <<>>
    /\ columnNames = <<>>
    /\ newRowInsertData = <<>>
    /\ dates = NoDates
    /\ returnData = <<>>
    /\ returned = Undefined
    /\ outcome = "idle"
    /\ webhookData = [lastTimeChecked |-> Undefined]

Init ==
    /\ Main
    /\ credentials \in {NoCredentials, SeatableApi}
    /\ clock = TwoMinutes
    /\ unit = NoUnit

Next ==
    \/ ExecuteStart(ExecuteParams)
    \/ PollStart
    \/ TokenResponse
    \/ MetadataResponse
    \/ InsertResponse
    \/ FetchResponse
    \/ RowsResponse
    \/ PageResponse(ShortLengths)

Spec == Init /\ [][Next]_vars

\* list with Return All against a server that also returns full pages
NextPage ==
    \/ ExecuteStart(ListAllParams)
    \/ TokenResponse
    \/ MetadataResponse
    \/ PageResponse(AllLengths)

SpecPage == Init /\ [][NextPage]_vars

---------------------------------------------------------------------------
(* The helpers on their own: unit holds the arguments and the result *)

main == <<entry, params, credentials, ctx, pc, await, requests, responses, i,
          query, pageData, dtableColumns, columnNames, newRowInsertData, dates,
          returnData, returned, outcome, webhookData, clock>>

MaxRows == 3         \* a fetched collection has at most this many rows

\* rows as the rows endpoint may return them: row n of the answer has _id n,
\* a _ctime that is missing or one of three texts and the _mtime in the
\* reverse order; no row has a _seq, or every row has one (counting down), or
\* only the first, or all but the first
Stamps == {Undefined, Str(1), Str(2), Str(3)}
Reverse(stamp) == IF stamp = Undefined THEN Undefined ELSE Str(4 - stamp.val)
TimedRow(id, ctime, seq) ==
    <<Entry("_id", Num(id))>>
    \o (IF ctime = Undefined THEN <<>>
        ELSE <<Entry("_ctime", ctime), Entry("_mtime", Reverse(ctime))>>)
    \o (IF seq = Undefined THEN <<>> ELSE <<Entry("_seq", seq)>>)
ServerSeq(mode, n, l) ==
    CASE mode = "none" -> Undefined
      [] mode = "every" -> Num(l + 1 - n)
      [] mode = "first" -> IF n = 1 THEN Num(1) ELSE Undefined
      [] mode = "rest" -> IF n = 1 THEN Undefined ELSE Num(l + 1 - n)
FetchedRows ==
    UNION {{[n \in 1..l |-> TimedRow(n, ctimes[n], ServerSeq(mode, n, l))] :
               ctimes \in [1..l -> Stamps], mode \in {"none", "every", "first", "rest"}} :
           l \in 0..MaxRows}

InitTime ==
    /\ Main /\ credentials = SeatableApi /\ clock = TwoMinutes
    /\ unit \in {[fn |-> "rowsTime", fetched |-> rows, rows |-> rows, columnName |-> c,
                  startDate |-> d, step |-> "fetched"] :
                    rows \in FetchedRows, c \in {"_ctime", "_mtime"}, d \in {Str(1), Str(2)}}

\* poll: rowsTimeFilter(rows, triggerColumn, startDate)
TimeFilter ==
    /\ unit.step = "fetched"
    /\ unit' = [unit EXCEPT !.rows = rowsTimeFilter(unit.rows, unit.columnName, unit.startDate),
                            !.step = "filtered"]
    /\ UNCHANGED main

\* poll: rowsTimeSort(rows, triggerColumn)
TimeSort ==
    /\ unit.step = "filtered"
    /\ unit' = [unit EXCEPT !.rows = rowsTimeSort(unit.rows, unit.columnName),
                            !.step = "sorted"]
    /\ UNCHANGED main

SpecTime == InitTime /\ [][TimeFilter \/ TimeSort]_vars

\* rows as the insert answers with them, keyed by column keys, and the
\* columns of the table
Choices(key, values) == {<<>>} \cup {<<Entry(key, v)>> : v \in values}
KeyedRows ==
    {a \o b \o c \o d \o e \o f :
        a \in Choices("_id", {Str(7), Str(0)}),
        b \in Choices("0000", {Str(5), Obj}),
        c \in Choices("_seq", {Num(3), Num(0)}),
        d \in Choices("k1", {Num(0)}),
        e \in Choices("_ctime", {Str(2), Null}),
        f \in Choices("zz", {Bool(FALSE)})}
ColumnLists ==
    {TablesPlain[1].columns,
     <<Column("0000", "T", "text"), Column("_ctime", "Created", "ctime")>>,
     <<Column("k1", "S", "number")>>}

InitMap ==
    /\ Main /\ credentials = SeatableApi /\ clock = TwoMinutes
    /\ unit \in {[fn |-> "rowMap", row |-> row, columns |-> columns, outRow |-> <<>>,
                  step |-> "call"] : row \in KeyedRows, columns \in ColumnLists}

MapColumns ==
    /\ unit.step = "call"
    /\ unit' = [unit EXCEPT !.outRow = rowMapColumnsFromKeysToNames(unit.row, unit.columns),
                            !.step = "mapped"]
    /\ UNCHANGED main

SpecMap == InitMap /\ [][MapColumns]_vars

\* append: the inserted row is mapped to column names and then formatted with
\* the names of the table's columns
RoundTripRows ==
    {a \o b \o c \o d \o e :
        a \in Choices("_id", {Str(7)}),
        b \in Choices("0000", {Str(5), Obj, Arr(<<Str(1), Str(2)>>), Arr(<<Str(1), Num(2)>>)}),
        c \in Choices("_ctime", {Str(2), Null}),
        d \in Choices("k1", {Num(0), Bool(FALSE), Null}),
        e \in Choices("zz", {Str(3)})}
RoundTripColumns ==
    ColumnLists
    \cup {<<Column("0000", "T", "text"), Column("k1", "T", "number")>>,
          <<Column("0000", "T", "text"), Column("k1", "_id", "text")>>}

InitRoundTrip ==
    /\ Main /\ credentials = SeatableApi /\ clock = TwoMinutes
    /\ unit \in {[fn |-> "roundTrip", row |-> row, columns |-> columns, outRow |-> <<>>,
                  formatted |-> <<>>, step |-> "call"] :
                    row \in RoundTripRows, columns \in RoundTripColumns}

\* rowFormatColumns(newRowInsertData, dtableColumns.map($ => $.name))
FormatColumns ==
    /\ unit.fn = "roundTrip" /\ unit.step = "mapped"
    /\ unit' = [unit EXCEPT !.formatted =
                                rowFormatColumns(unit.outRow,
                                                 [n \in 1..Len(unit.columns) |-> unit.columns[n].name]),
                            !.step = "formatted"]
    /\ UNCHANGED main

SpecRoundTrip == InitRoundTrip /\ [][MapColumns \/ FormatColumns]_vars

\* the Columns field: any text of at most MaxChars characters; the character
\* "_id" stands for the run of plain characters that spells the reserved name
MaxChars == 4
Characters == {"a", "b", " ", ",", "\\", "_id"}
Texts == UNION {[1..l -> Characters] : l \in 0..MaxChars}

InitNames ==
    /\ Main /\ credentials = SeatableApi /\ clock = TwoMinutes
    /\ unit \in {[fn |-> "columnNames", input |-> text, names |-> <<>>, step |-> "call"] :
                    text \in Texts}

\* columnNamesToArray(additionalFields.columnNames)
ParseNames ==
    /\ unit.fn = "columnNames" /\ unit.step = "call"
    /\ unit' = [unit EXCEPT !.names = columnNamesToArray(unit.input), !.step = "parsed"]
    /\ UNCHANGED main

SpecNames == InitNames /\ [][ParseNames]_vars

\* rows keyed by column names, as the rows endpoint answers with them, and the
\* column lists to format them with: at most MaxNames names, of columns the
\* row has or lacks; a column may be named like an array index
MaxNames == 3
NamedRows ==
    {a \o b \o c :
        a \in Choices("7", {Str(1)}),
        b \in Choices("T", {Str(5), Obj, Arr(<<>>), Arr(<<Str(1), Str(2)>>), Arr(<<Str(1), Num(2)>>)}),
        c \in Choices("S", {Num(0), Bool(FALSE), Null})}
NameLists == UNION {[1..l -> {"T", "S", "G", "7"}] : l \in 0..MaxNames}

InitFormat ==
    /\ Main /\ credentials = SeatableApi /\ clock = TwoMinutes
    /\ unit \in {[fn |-> "format", row |-> row, names |-> names, outRow |-> <<>>,
                  step |-> "call"] : row \in NamedRows, names \in NameLists}

\* rowFormatColumns(row, columnNames)
FormatRow ==
    /\ unit.fn = "format" /\ unit.step = "call"
    /\ unit' = [unit EXCEPT !.outRow = rowFormatColumns(unit.row, unit.names),
                            !.step = "formatted"]
    /\ UNCHANGED main

SpecFormat == InitFormat /\ [][FormatRow]_vars

---------------------------------------------------------------------------
(* Properties *)

RowsRequests == SelectSeq(requests, LAMBDA r : r.kind = "rows")
FullPage(body) == body.hasRows /\ Len(body.rows) = 1000
RECURSIVE ConcatRows(_)
ConcatRows(bodies) ==
    IF bodies = <<>> THEN <<>> ELSE Head(bodies).rows \o ConcatRows(Tail(bodies))
ListAll == entry = "execute" /\ params.operation = "list" /\ params.returnAll
\* every page request has been answered with a body
AllPagesFetched == Len(RowsRequests) >= 1 /\ Len(RowsRequests) = Len(responses)
\* a page request has failed
PageFailed == pc = "done" /\ Len(RowsRequests) = Len(responses) + 1

\* C1: apiRequestAllItems sends its k-th request (k = 0, 1, ...) with
\* start = 1000 * k and limit = 1000; a request follows only pages of exactly
\* 1000 rows, the fetch ends with the first page of 999 or fewer rows or of
\* no rows field, and its result is the rows of all pages in page order: one
\* request more than there are full pages.
C1_Pagination ==
    ListAll =>
        /\ \A k \in 1..Len(RowsRequests) :
              /\ RowsRequests[k].start = 1000 * (k - 1)
              /\ RowsRequests[k].limit = 1000
        /\ \A k \in 1..Len(responses) : k < Len(RowsRequests) => FullPage(responses[k])
        /\ AllPagesFetched =>
              /\ ~FullPage(responses[Len(responses)])
              /\ pageData = ConcatRows(responses)
              /\ Len(RowsRequests) = 1 + Cardinality({k \in 1..Len(responses) : FullPage(responses[k])})
              /\ outcome = "ok" => Len(returned.val) = Len(ConcatRows(responses))

\* C1, witness: pages of 1000, 1000 and ShortPage rows, fetched with three
\* requests and returned as one collection
C1_Witness ==
    /\ ListAll /\ outcome = "ok"
    /\ Len(RowsRequests) = 3
    /\ Len(responses[1].rows) = 1000 /\ Len(responses[2].rows) = 1000
    /\ Len(returned.val) = 2000 + ShortPage

\* C6: when the request for a page fails, the fetch ends with an API error:
\* the caller gets no rows, not those of the earlier pages either, and no
\* request follows the failed one.
C6_PageFailureAborts ==
    ListAll =>
        /\ Len(RowsRequests) <= Len(responses) + 1
        /\ PageFailed => outcome = "NodeApiError" /\ returned = Undefined /\ await = "none"

\* C6, witness: the second page fails after a first page of 1000 rows
C6_Witness ==
    /\ ListAll /\ PageFailed
    /\ Len(responses) = 1 /\ Len(pageData) = 1000
    /\ outcome = "NodeApiError" /\ returned = Undefined

CountOf(log, kind) == Cardinality({k \in 1..Len(log) : log[k].kind = kind})
\* a step of the running invocation, not the start of the next one
SameInvocation == clock' = clock

\* C2: within one invocation the token exchange is requested at most once
\* and the metadata at most once, however many calls share the context (the
\* items of append among them); once a stage has filled its field, no later
\* call requests it again or changes it.
C2_StagedOnce ==
    /\ [](CountOf(requests, "token") <= 1 /\ CountOf(requests, "metadata") <= 1)
    /\ [][SameInvocation =>
            /\ ~TokenMissing(ctx) =>
                  /\ ctx'.api.appAccessToken = ctx.api.appAccessToken
                  /\ CountOf(requests', "token") = CountOf(requests, "token")
            /\ ~MetadataMissing(ctx) =>
                  /\ ctx'.metadata = ctx.metadata
                  /\ CountOf(requests', "metadata") = CountOf(requests, "metadata")]_vars

\* C2, witness: append has processed two items with one token exchange and
\* one metadata request
C2_Witness ==
    /\ entry = "execute" /\ params.operation = "append" /\ outcome = "ok"
    /\ Len(returned.val) = 2
    /\ CountOf(requests, "insert") = 2 /\ CountOf(requests, "fetch") = 2
    /\ CountOf(requests, "token") = 1 /\ CountOf(requests, "metadata") = 1

\* the columns the metadata declares for the requested table, and those of
\* them whose type the node supports
Declared ==
    LET tables == ctx.metadata.val.tables.val
    IN  tables[CHOOSE n \in 1..Len(tables) : tables[n].name = params.table].columns
Supported == SelectSeq(Declared, LAMBDA c : c.type \in columnTypes)
NamesOf(columns) == {columns[n].name : n \in 1..Len(columns)}
Requested == columnNamesToArray(params.columnNames)
\* list or poll has formatted rows and returned them
ColumnListUsed ==
    /\ pc = "done" /\ outcome = "ok" /\ returned.type = "array"
    /\ entry = "poll" \/ params.operation = "list"

C4_NoDuplicateColumn ==
    ColumnListUsed =>
        \A a, b \in 1..Len(columnNames) : a # b => columnNames[a] # columnNames[b]

\* the metadata has been fetched and none of its tables has the given name
TableUnknown ==
    /\ pc = "done" /\ ctx.metadata # Undefined /\ ctx.metadata.val.tables # Undefined
    /\ \A n \in 1..Len(ctx.metadata.val.tables.val) :
          ctx.metadata.val.tables.val[n].name # params.table
NotATable == "SeaTable: Not a table: \"" \o params.table \o "\"."
UnknownOperation ==
    pc = "done" /\ entry = "execute" /\ params.operation \notin {"append", "list", "metadata"}
UnknownOperationFails ==
    UnknownOperation =>
        /\ outcome = "The operation \"" \o params.operation \o "\" is not known!"
        /\ requests = <<>> /\ returned = Undefined

\* C7, as claimed: append, list, metadata and poll fail with an error naming
\* the table when no table of the fetched metadata has that name, and return
\* nothing; an unknown operation fails with an error naming it before any
\* request.
C7_UnknownTableFails ==
    /\ TableUnknown => outcome = NotATable /\ returned = Undefined
    /\ UnknownOperationFails

\* C7, amended: append, list and poll fail with an error naming the table
\* when no table of the fetched metadata has that name, and return nothing;
\* the metadata operation then returns every table of the base instead; an
\* unknown operation fails with an error naming it before any request.
C7_UnknownTableFailsButMetadata ==
    /\ TableUnknown /\ params.operation # "metadata" =>
          outcome = NotATable /\ returned = Undefined
    /\ TableUnknown /\ params.operation = "metadata" =>
          /\ outcome = "ok"
          /\ Len(returned.val) = Len(ctx.metadata.val.tables.val)
          /\ \A n \in 1..Len(returned.val) :
                returned.val[n].name = ctx.metadata.val.tables.val[n].name
    /\ UnknownOperationFails

\* C7, witness: the trigger polls a table the base does not have
C7_Witness ==
    /\ TableUnknown /\ entry = "poll" /\ params.table = "Ghost"
    /\ outcome = NotATable /\ returned = Undefined
    /\ CountOf(requests, "rows") = 0

ItemRequests == SelectSeq(requests, LAMBDA r : r.kind \in {"insert", "fetch"})
Appending == entry = "execute" /\ params.operation = "append"

\* C8: append sends the insert of item 1, the fetch of item 1, the insert of
\* item 2, ... in this order; when a request or an identity check of item i
\* fails, nothing is requested for a later item and append ends with the
\* error, handing back no row of the items before i.
C8_AppendSequential ==
    Appending =>
        /\ \A k \in 1..Len(ItemRequests) :
              /\ ItemRequests[k].kind = (IF k % 2 = 1 THEN "insert" ELSE "fetch")
              /\ ItemRequests[k].item = (k + 1) \div 2
        /\ pc = "done" /\ outcome # "ok" =>
              /\ returned = Undefined
              /\ Len(ItemRequests) <= 2 * (Len(returnData) + 1)
        /\ pc = "done" /\ outcome = "ok" =>
              /\ Len(ItemRequests) = 2 * params.items
              /\ Len(returned.val) = params.items

\* C8, witness: the fetch of the second item fails after the first item
\* gave its row
C8_Witness ==
    /\ Appending /\ pc = "done" /\ outcome = "NodeApiError"
    /\ Len(returnData) = 1 /\ Len(ItemRequests) = 4
    /\ returned = Undefined

\* the entry point has asked the host for the credentials
CredentialsAsked ==
    \/ entry = "poll"
    \/ /\ entry = "execute"
       /\ \/ params.operation \in {"list", "metadata"}
          \/ params.operation = "append" /\ params.items > 0

\* C9: when the host returns no credentials, execute and poll fail with the
\* error of the credential stage and send no request.
C9_NoCredentialsError ==
    pc = "done" /\ ~credentials.defined /\ CredentialsAsked =>
        outcome = "No credentials got returned!" /\ requests = <<>>

\* the rows of unit.fetched by their place in the answer (which is their _id)
Arrival(rows) == [n \in 1..Len(rows) |-> Get(rows[n], "_id").val]
StampOf(id) == Get(unit.fetched[id], unit.columnName)
Newer(id) == StampOf(id).type = "string" /\ StampOf(id).val > unit.startDate.val
\* filtered and sorted: exactly the newer rows, by timestamp and then by
\* arrival
NewerRowsInOrder ==
    LET ids == Arrival(unit.rows)
    IN  /\ Range(ids) = {id \in 1..Len(unit.fetched) : Newer(id)}
        /\ Len(ids) = Cardinality(Range(ids))
        /\ \A n \in 1..(Len(ids) - 1) :
              \/ StampOf(ids[n]).val < StampOf(ids[n + 1]).val
              \/ StampOf(ids[n]).val = StampOf(ids[n + 1]).val /\ ids[n] < ids[n + 1]
\* each row left carries its arrival number as _seq
ArrivalSequenced ==
    \A n \in 1..Len(unit.rows) : Get(unit.rows[n], "_seq") = Num(Arrival(unit.rows)[n])
Sequenced == unit.fetched # <<>> /\ Get(unit.fetched[1], "_seq") # Undefined

\* C5, as claimed: for any fetched rows and any cursor, rowsTimeFilter and
\* then rowsTimeSort give exactly the rows whose timestamp is greater than
\* the cursor, ascending by timestamp, equal timestamps in arrival order.
C5_FilterSortAnyRows == unit.step = "sorted" => NewerRowsInOrder

\* C5, amended: the same for any fetched rows whose first row carries no
\* _seq field; the tie-break is then on the arrival numbers rowsSequence
\* assigned before filtering.
C5_FilterSortUnsequencedRows ==
    unit.step = "sorted" /\ ~Sequenced => NewerRowsInOrder /\ ArrivalSequenced

\* C5, witness: timestamps 3, 2, 2 in arrival order and the cursor 1 give the
\* second, the third and then the first row
C5_Witness ==
    /\ unit.step = "sorted" /\ ~Sequenced
    /\ unit.columnName = "_ctime" /\ unit.startDate = Str(1)
    /\ Len(unit.fetched) = 3
    /\ StampOf(1) = Str(3) /\ StampOf(2) = Str(2) /\ StampOf(3) = Str(2)
    /\ Arrival(unit.rows) = <<2, 3, 1>>

\* C10: every reserved internal field of the input row is in the output row
\* of rowMapColumnsFromKeysToNames under its own name with its own value,
\* whatever the value, and none goes through the column metadata.
C10_InternalFieldsKept ==
    unit.step = "mapped" =>
        \A n \in 1..Len(internalNames) :
            Has(unit.row, internalNames[n]) =>
                /\ Has(unit.outRow, internalNames[n])
                /\ Get(unit.outRow, internalNames[n]) = Get(unit.row, internalNames[n])
                /\ \A c \in 1..Len(unit.columns) :
                      unit.columns[c].key = internalNames[n]
                          => ~Has(unit.outRow, unit.columns[c].name)

\* the columns whose key is no reserved internal name
NonInternal == {c \in 1..Len(unit.columns) : unit.columns[c].key \notin Range(internalNames)}
\* what formatting leaves of a value: booleans, numbers, strings and arrays of
\* strings as they are, null for anything else and for a missing value
Formatted(v) ==
    IF \/ v.type \in {"boolean", "number", "string"}
       \/ v.type = "array" /\ \A n \in 1..Len(v.val) : v.val[n].type = "string"
    THEN v ELSE Null
PlainNames ==
    /\ \A c, d \in 1..Len(unit.columns) : unit.columns[c].name = unit.columns[d].name => c = d
    /\ \A c \in 1..Len(unit.columns) : unit.columns[c].name \notin Range(internalNames)

\* C11, as claimed: after rowMapColumnsFromKeysToNames and rowFormatColumns
\* with the column names, the name of every non-internal column maps to the
\* value the row held under the column's key.
C11_RoundTripValue ==
    unit.step = "formatted" =>
        \A c \in NonInternal :
            Has(unit.row, unit.columns[c].key) =>
                Get(unit.formatted, unit.columns[c].name) = Get(unit.row, unit.columns[c].key)

\* C11, amended: when the column names are distinct and none is a reserved
\* internal name, the name of every non-internal column maps to the formatted
\* value of what the row held under the column's key: the value itself when
\* it is a boolean, a number, a string or an array of strings, and null
\* otherwise or when the row has no such key.
C11_RoundTripFormattedValue ==
    unit.step = "formatted" /\ PlainNames =>
        \A c \in NonInternal :
            /\ Has(unit.formatted, unit.columns[c].name)
            /\ Get(unit.formatted, unit.columns[c].name)
                   = Formatted(Get(unit.row, unit.columns[c].key))

\* C11, witness: a row with an array of strings under 0000 and 0 under k1
\* comes back with them under T and S
C11_Witness ==
    /\ unit.step = "formatted"
    /\ unit.columns = TablesPlain[1].columns
    /\ Get(unit.row, "0000") = Arr(<<Str(1), Str(2)>>)
    /\ Get(unit.row, "k1") = Num(0)
    /\ Get(unit.row, "_id") = Str(7)
    /\ unit.formatted = <<Entry("T", Arr(<<Str(1), Str(2)>>)), Entry("S", Num(0))>>

\* the list the description gives: tokens between unescaped commas, as
\* sequences of units (a plain character, or an escaped one)
Plain(c) == [esc |-> FALSE, c |-> c]
Escaped(c) == [esc |-> TRUE, c |-> c]
RECURSIVE TokensOf(_, _, _, _)
TokensOf(s, q, token, acc) ==
    IF q > Len(s) THEN Append(acc, token)
    ELSE IF s[q] = "\\" /\ q < Len(s)
         THEN TokensOf(s, q + 2, Append(token, Escaped(s[q + 1])), acc)
         ELSE IF s[q] = ","
              THEN TokensOf(s, q + 1, <<>>, Append(acc, token))
              ELSE TokensOf(s, q + 1, Append(token, Plain(s[q])), acc)
Blank(u) == ~u.esc /\ u.c \in Whitespace
RECURSIVE Trimmed(_)
Trimmed(token) ==
    IF token = <<>> THEN <<>>
    ELSE IF Blank(Head(token)) THEN Trimmed(Tail(token))
    ELSE IF Blank(token[Len(token)]) THEN Trimmed(SubSeq(token, 1, Len(token) - 1))
    ELSE token
NameOf(token) == Spell([n \in 1..Len(token) |-> token[n].c])
RECURSIVE FirstSeen(_, _)
FirstSeen(names, acc) ==
    IF names = <<>> THEN acc
    ELSE FirstSeen(Tail(names),
                   IF Head(names) \in Range(acc) THEN acc ELSE Append(acc, Head(names)))
DescribedNames(text) ==
    LET tokens == TokensOf(text, 1, <<>>, <<>>)
        names == [n \in 1..Len(tokens) |-> NameOf(Trimmed(tokens[n]))]
    IN  FirstSeen(SelectSeq(names, LAMBDA t : t \notin ({""} \cup Range(internalNames))), <<>>)

\* C12: for every input text columnNamesToArray returns the tokens between
\* the unescaped commas, trimmed and unescaped, without the empty ones and the
\* reserved names, each once in first-seen order; the empty text gives the
\* empty list.
C12_ColumnNamesAsDescribed ==
    unit.step = "parsed" =>
        /\ unit.names = DescribedNames(unit.input)
        /\ unit.input = <<>> => unit.names = <<>>

\* C13: rowFormatColumns returns a row whose keys are the listed names in the
\* listed order (a name listed again keeps its first place), each with the
\* input value when that is a boolean, a number, a string or an array of
\* strings and with null otherwise, a column missing from the row included.
C13_ListedKeysInOrder ==
    unit.fn = "format" /\ unit.step = "formatted" =>
        /\ Keys(unit.outRow) = FirstSeen(unit.names, <<>>)
        /\ \A n \in 1..Len(unit.names) :
              Get(unit.outRow, unit.names[n]) = Formatted(Get(unit.row, unit.names[n]))

\* the step in which a poll receives the last page of its fetch
FetchCompletes ==
    /\ entry = "poll" /\ pc = "page" /\ await = "rows"
    /\ pc' = "done" /\ Len(responses') = Len(responses) + 1

\* C14: the stored cursor changes only in the step that completes a poll's
\* paginated fetch (so a poll failing in the metadata lookup or on a page
\* leaves it as it was), that step sets it to the time the poll took at its
\* start, rows or no rows, and lastTimeChecked is the only field stored.
C14_CursorIsPollStart ==
    [][/\ webhookData' # webhookData => FetchCompletes
       /\ FetchCompletes => webhookData' = [lastTimeChecked |-> format(clock)]]_vars

=============================================================================
